---- MODULE Spec2Model ----
(***************************************************************************)
(* Model of src/server.js: the request gatekeeper (identity resolution,    *)
(* per-identity window counting, permanent bans, the ban-list file, the    *)
(* periodic reaper, the unban route and the process lifecycle).            *)
(*                                                                         *)
(* JavaScript values are records [t, s]: t is the type tag, s the          *)
(* characters of a string (a sequence of one-character strings).           *)
(* Time is counted in units of TIME_WINDOW (60000 ms in the source); the   *)
(* stale threshold (300000 ms) and REQUEST_LIMIT (50) are scaled down, the *)
(* threshold staying above the window as in the source.                    *)
(***************************************************************************)
EXTENDS Integers, Sequences, FiniteSets, TLC

VARIABLES pc, now, requestTracker, bannedIPs, file, last, log, loop, shadow

vars == <<pc, now, requestTracker, bannedIPs, file, last, log, loop, shadow>>

\* ------------------------------------------------------------ configuration

\* REQUEST_LIMIT (server.js:8, 50 in the source), scaled down.
REQUEST_LIMIT == 2
\* TIME_WINDOW (server.js:10, 60000 ms): one clock unit.
TIME_WINDOW == 1
\* The reaper's stale threshold (server.js:128, 300000 ms), scaled down.
STALE_THRESHOLD == 2
\* The clock stops advancing at MaxTime.
MaxTime == 3
\* No request is modelled for an identity whose count has reached MaxCount.
MaxCount == 4
\* At most MaxCalls consecutive direct calls of banIP for one identity.
MaxCalls == 2

\* ------------------------------------------------------------ JS values

Str(chars) == [t |-> "string", s |-> chars]
Undefined == [t |-> "undefined", s |-> <<>>]
Null == [t |-> "null", s |-> <<>>]
Num1 == [t |-> "number", s |-> <<"1">>]

\* JavaScript truthiness of a header value: undefined and "" are falsy.
Truthy(v) == v.t = "string" /\ v.s # <<>>

RECURSIVE SeqHas(_, _)
SeqHas(seq, x) ==
  IF seq = <<>> THEN FALSE
  ELSE IF Head(seq) = x THEN TRUE ELSE SeqHas(Tail(seq), x)

RECURSIVE SeqWithout(_, _)
SeqWithout(seq, x) ==
  IF seq = <<>> THEN <<>>
  ELSE IF Head(seq) = x THEN SeqWithout(Tail(seq), x)
  ELSE <<Head(seq)>> \o SeqWithout(Tail(seq), x)

RECURSIVE CountIn(_, _)
CountIn(seq, x) ==
  IF seq = <<>> THEN 0
  ELSE (IF Head(seq) = x THEN 1 ELSE 0) + CountIn(Tail(seq), x)

\* A JavaScript Set keeps insertion order: a sequence without repetitions.
SetHas(set, x) == SeqHas(set, x)
SetAdd(set, x) == IF SeqHas(set, x) THEN set ELSE Append(set, x)
SetDelete(set, x) == SeqWithout(set, x)
Members(set) == {set[i] : i \in 1..Len(set)}

\* new Set(iterable): the elements in order of first occurrence.
RECURSIVE NewSet(_)
NewSet(list) ==
  IF list = <<>> THEN <<>>
  ELSE SetAdd(NewSet(SubSeq(list, 1, Len(list) - 1)), list[Len(list)])

\* ------------------------------------------------------------ getRealIP

\* split(',')[0]: the characters before the first comma.
RECURSIVE SplitFirst(_)
SplitFirst(chars) ==
  IF chars = <<>> \/ Head(chars) = "," THEN <<>>
  ELSE <<Head(chars)>> \o SplitFirst(Tail(chars))

RECURSIVE TrimStart(_)
TrimStart(chars) ==
  IF chars # <<>> /\ Head(chars) = " " THEN TrimStart(Tail(chars)) ELSE chars

RECURSIVE TrimEnd(_)
TrimEnd(chars) ==
  IF chars # <<>> /\ chars[Len(chars)] = " "
  THEN TrimEnd(SubSeq(chars, 1, Len(chars) - 1)) ELSE chars

Trim(chars) == TrimEnd(TrimStart(chars))

\* Mutant: getRealIP looking at x-real-ip before cf-connecting-ip.
getRealIPRealFirst(req) ==
  IF Truthy(req.realip) THEN req.realip
  ELSE IF Truthy(req.cf) THEN req.cf
  ELSE IF Truthy(req.forwarded) THEN Str(Trim(SplitFirst(req.forwarded.s)))
  ELSE req.remote

\* req is [cf, realip, forwarded, remote]: the three headers and the socket's
\* remoteAddress (req.connection is the same socket as req.socket).
getRealIP(req) ==
  IF Truthy(req.cf) THEN req.cf
  ELSE IF Truthy(req.realip) THEN req.realip
  ELSE IF Truthy(req.forwarded) THEN Str(Trim(SplitFirst(req.forwarded.s)))
  ELSE req.remote

\* ------------------------------------------------------------ the ban-list file

\* The file is [exists, kind, ips, total]. kind says what JSON.parse makes of
\* its text: "invalid" (parse throws), "null", "scalar" (a number, string,
\* boolean or array: its .ips is undefined) or "object" with the fields ips
\* and totalBanned (total); lastUpdated is written and never read, and is
\* left out. ips is [t, s, a]: "absent", "null",
\* "falsy", "number", "object", "string" (characters s) or "array" (elements a).
NoIps == [t |-> "absent", s |-> <<>>, a |-> <<>>]
IpsArray(elems) == [t |-> "array", s |-> <<>>, a |-> elems]
IpsString(chars) == [t |-> "string", s |-> chars, a |-> <<>>]
IpsOther(tag) == [t |-> tag, s |-> <<>>, a |-> <<>>]

NoFile == [exists |-> FALSE, kind |-> "none", ips |-> NoIps, total |-> 0]
TextFile(kind) == [exists |-> TRUE, kind |-> kind, ips |-> NoIps, total |-> 0]
ObjectFile(ips, total) ==
  [exists |-> TRUE, kind |-> "object", ips |-> ips, total |-> total]

\* JSON.stringify of an array element: undefined is written as null.
ToJSON(v) == IF v.t = "undefined" THEN Null ELSE v

\* Array.from(bannedIPs) as JSON.stringify writes it.
StringifyIps(set) == [i \in 1..Len(set) |-> ToJSON(set[i])]

\* What writeFileSync does to the file: it succeeds, throws before touching
\* the file, or throws after truncating it.
WriteOutcomes == {"ok", "untouched", "torn"}

\* saveBannedIPs with bannedIPs = set at time t; st is [file, writes, failed].
saveBannedIPs(set, st, w, t) ==
  [file |-> CASE w = "ok" -> ObjectFile(IpsArray(StringifyIps(set)), Len(set))
              [] w = "untouched" -> st.file
              [] OTHER -> TextFile("invalid"),
   writes |-> st.writes + 1,
   failed |-> st.failed \/ w # "ok"]

\* The characters of a string as one-character strings.
CharsOf(chars) == [i \in 1..Len(chars) |-> Str(<<chars[i]>>)]

\* Whether JSON.parse(data) or new Set(banned.ips || []) throws on the file f:
\* invalid JSON, null (null.ips), or a truthy ips that is not iterable.
LoadThrows(f) ==
  \/ f.kind \in {"invalid", "null"}
  \/ f.kind = "object" /\ f.ips.t \in {"number", "object"}

\* new Set(banned.ips || []) of the parsed file f when nothing throws; a falsy
\* ips ("falsy": 0, false or "") gives [], a string gives its characters.
ParsedSet(f) ==
  CASE f.kind = "scalar" -> <<>>
    [] f.ips.t \in {"absent", "null", "falsy"} -> <<>>
    [] f.ips.t = "string" -> NewSet(CharsOf(f.ips.s))
    [] OTHER -> NewSet(f.ips.a)

\* Mutant: loadBannedIPs not creating the file it misses.
loadBannedIPsNoCreate(set, st, readOk, w, t) ==
  IF st.file.exists
  THEN [banned |-> IF ~readOk \/ LoadThrows(st.file) THEN <<>> ELSE ParsedSet(st.file),
        st |-> st]
  ELSE [banned |-> set, st |-> st]

\* loadBannedIPs: returns [banned, st]; readOk is whether readFileSync succeeds.
loadBannedIPs(set, st, readOk, w, t) ==
  IF st.file.exists
  THEN [banned |-> IF ~readOk \/ LoadThrows(st.file) THEN <<>> ELSE ParsedSet(st.file),
        st |-> st]
  ELSE [banned |-> set, st |-> saveBannedIPs(set, st, w, t)]

\* Mutant: banIP undoing the add when the save fails.
banIPRollback(m, ip, w, t) ==
  IF ~SetHas(m.banned, ip)
  THEN [banned |-> IF w = "ok" THEN SetAdd(m.banned, ip) ELSE m.banned,
        st |-> saveBannedIPs(SetAdd(m.banned, ip), m.st, w, t)]
  ELSE m

\* Mutant: banIP without its check of bannedIPs.
banIPUnchecked(m, ip, w, t) ==
  [banned |-> SetAdd(m.banned, ip),
   st |-> saveBannedIPs(SetAdd(m.banned, ip), m.st, w, t)]

\* banIP (server.js:63-69) on m = [banned, st].
banIP(m, ip, w, t) ==
  IF ~SetHas(m.banned, ip)
  THEN [banned |-> SetAdd(m.banned, ip),
        st |-> saveBannedIPs(SetAdd(m.banned, ip), m.st, w, t)]
  ELSE m

\* ------------------------------------------------------------ the middleware

EmptyMap == [k \in {} |-> 0]
MapHas(map, k) == k \in DOMAIN map
MapSet(map, k, v) == [x \in DOMAIN map \cup {k} |-> IF x = k THEN v ELSE map[x]]
MapDelete(map, ks) == [x \in DOMAIN map \ ks |-> map[x]]

\* Mutant: the window reset starting the count at 0.
TrackRequestResetToZero(tracker, ip, t) ==
  IF ~MapHas(tracker, ip)
  THEN MapSet(tracker, ip, [count |-> 1, firstRequest |-> t, lastRequest |-> t])
  ELSE LET e == tracker[ip] IN
       IF t - e.firstRequest > TIME_WINDOW
       THEN MapSet(tracker, ip, [count |-> 0, firstRequest |-> t, lastRequest |-> t])
       ELSE MapSet(tracker, ip, [e EXCEPT !.count = @ + 1, !.lastRequest = t])

\* Mutant: the window expiring at TIME_WINDOW instead of after it.
TrackRequestEarlyReset(tracker, ip, t) ==
  IF ~MapHas(tracker, ip)
  THEN MapSet(tracker, ip, [count |-> 1, firstRequest |-> t, lastRequest |-> t])
  ELSE LET e == tracker[ip] IN
       IF t - e.firstRequest >= TIME_WINDOW
       THEN MapSet(tracker, ip, [count |-> 1, firstRequest |-> t, lastRequest |-> t])
       ELSE MapSet(tracker, ip, [e EXCEPT !.count = @ + 1, !.lastRequest = t])

\* The tracker update of one request (server.js:86-103).
TrackRequest(tracker, ip, t) ==
  IF ~MapHas(tracker, ip)
  THEN MapSet(tracker, ip, [count |-> 1, firstRequest |-> t, lastRequest |-> t])
  ELSE LET e == tracker[ip] IN
       IF t - e.firstRequest > TIME_WINDOW
       THEN MapSet(tracker, ip, [count |-> 1, firstRequest |-> t, lastRequest |-> t])
       ELSE MapSet(tracker, ip, [e EXCEPT !.count = @ + 1, !.lastRequest = t])

\* Mutant: the limit check with >= for >.
LimitExceededAtLimit(before, after, ip) ==
  MapHas(before, ip) /\ after[ip].count >= REQUEST_LIMIT

\* The limit check (server.js:106); it sits in the branch of a known identity.
LimitExceeded(before, after, ip) ==
  MapHas(before, ip) /\ after[ip].count > REQUEST_LIMIT

\* Which branch of the tracker update a request takes.
Branch(tracker, ip, t) ==
  IF ~MapHas(tracker, ip) THEN "new"
  ELSE IF t - tracker[ip].firstRequest > TIME_WINDOW THEN "reset" ELSE "increment"

\* Mutant: the middleware updating the tracker before it checks bannedIPs.
MiddlewareTrackFirst(m, ip, w, t) ==
  LET tr == TrackRequest(m.tracker, ip, t) IN
  IF SetHas(m.banned, ip)
  THEN [m |-> [m EXCEPT !.tracker = tr], outcome |-> "REJECTED_BANNED",
        destroyed |-> TRUE, next |-> FALSE, branch |-> "none",
        path |-> <<"ENTRY", "REJECTED_BANNED">>, banCalls |-> 0]
  ELSE IF LimitExceeded(m.tracker, tr, ip)
  THEN LET b == banIP([banned |-> m.banned, st |-> m.st], ip, w, t) IN
       [m |-> [tracker |-> tr, banned |-> b.banned, st |-> b.st],
        outcome |-> "BANNED_NOW_REJECTED", destroyed |-> TRUE, next |-> FALSE,
        branch |-> Branch(m.tracker, ip, t),
        path |-> <<"ENTRY", "TRACKED", "BANNED_NOW_REJECTED">>, banCalls |-> 1]
  ELSE [m |-> [m EXCEPT !.tracker = tr], outcome |-> "ADMITTED",
        destroyed |-> FALSE, next |-> TRUE, branch |-> Branch(m.tracker, ip, t),
        path |-> <<"ENTRY", "TRACKED", "ADMITTED">>, banCalls |-> 0]

\* Mutant: the middleware without its check of bannedIPs.
MiddlewareNoBanCheck(m, ip, w, t) ==
  LET tr == TrackRequest(m.tracker, ip, t) IN
  IF LimitExceeded(m.tracker, tr, ip)
  THEN LET b == banIP([banned |-> m.banned, st |-> m.st], ip, w, t) IN
       [m |-> [tracker |-> tr, banned |-> b.banned, st |-> b.st],
        outcome |-> "BANNED_NOW_REJECTED", destroyed |-> TRUE, next |-> FALSE,
        branch |-> Branch(m.tracker, ip, t),
        path |-> <<"ENTRY", "TRACKED", "BANNED_NOW_REJECTED">>, banCalls |-> 1]
  ELSE [m |-> [m EXCEPT !.tracker = tr], outcome |-> "ADMITTED",
        destroyed |-> FALSE, next |-> TRUE, branch |-> Branch(m.tracker, ip, t),
        path |-> <<"ENTRY", "TRACKED", "ADMITTED">>, banCalls |-> 0]

\* Mutant: the middleware falling through to next() after it has banned.
MiddlewareNextAfterBan(m, ip, w, t) ==
  IF SetHas(m.banned, ip)
  THEN [m |-> m, outcome |-> "REJECTED_BANNED", destroyed |-> TRUE, next |-> FALSE,
        branch |-> "none", path |-> <<"ENTRY", "REJECTED_BANNED">>, banCalls |-> 0]
  ELSE LET tr == TrackRequest(m.tracker, ip, t) IN
       IF LimitExceeded(m.tracker, tr, ip)
       THEN LET b == banIP([banned |-> m.banned, st |-> m.st], ip, w, t) IN
            [m |-> [tracker |-> tr, banned |-> b.banned, st |-> b.st],
             outcome |-> "BANNED_NOW_REJECTED", destroyed |-> TRUE, next |-> TRUE,
             branch |-> Branch(m.tracker, ip, t),
             path |-> <<"ENTRY", "TRACKED", "BANNED_NOW_REJECTED">>, banCalls |-> 1]
       ELSE [m |-> [m EXCEPT !.tracker = tr], outcome |-> "ADMITTED",
             destroyed |-> FALSE, next |-> TRUE, branch |-> Branch(m.tracker, ip, t),
             path |-> <<"ENTRY", "TRACKED", "ADMITTED">>, banCalls |-> 0]

\* The admission middleware (server.js:72-121) on m = [tracker, banned, st]:
\* the new m, the connection's outcome, whether req.socket.destroy() and
\* next() were called, the branch of the tracker update taken, the stages the
\* connection went through (path) and the calls of banIP (banCalls).
Middleware(m, ip, w, t) ==
  IF SetHas(m.banned, ip)
  THEN [m |-> m, outcome |-> "REJECTED_BANNED", destroyed |-> TRUE, next |-> FALSE,
        branch |-> "none", path |-> <<"ENTRY", "REJECTED_BANNED">>, banCalls |-> 0]
  ELSE LET tr == TrackRequest(m.tracker, ip, t) IN
       IF LimitExceeded(m.tracker, tr, ip)
       THEN LET b == banIP([banned |-> m.banned, st |-> m.st], ip, w, t) IN
            [m |-> [tracker |-> tr, banned |-> b.banned, st |-> b.st],
             outcome |-> "BANNED_NOW_REJECTED", destroyed |-> TRUE, next |-> FALSE,
             branch |-> Branch(m.tracker, ip, t),
             path |-> <<"ENTRY", "TRACKED", "BANNED_NOW_REJECTED">>, banCalls |-> 1]
       ELSE [m |-> [m EXCEPT !.tracker = tr], outcome |-> "ADMITTED",
             destroyed |-> FALSE, next |-> TRUE, branch |-> Branch(m.tracker, ip, t),
             path |-> <<"ENTRY", "TRACKED", "ADMITTED">>, banCalls |-> 0]

\* Mutant: the unban handler forgetting the identity's tracker entry too.
UnbanHandlerDropsEntry(m, target, w, t) ==
  IF SetHas(m.banned, target)
  THEN [m |-> [m EXCEPT !.banned = SetDelete(@, target),
                        !.tracker = MapDelete(@, {target}),
                        !.st = saveBannedIPs(SetDelete(m.banned, target), m.st, w, t)],
        success |-> TRUE]
  ELSE [m |-> m, success |-> FALSE]

\* The handler of GET /admin/unban/:ip (server.js:166-175).
UnbanHandler(m, target, w, t) ==
  IF SetHas(m.banned, target)
  THEN [m |-> [m EXCEPT !.banned = SetDelete(@, target),
                        !.st = saveBannedIPs(SetDelete(m.banned, target), m.st, w, t)],
        success |-> TRUE]
  ELSE [m |-> m, success |-> FALSE]

\* The reaper's pass (server.js:124-133).
\* Mutant: the reaper without its check of bannedIPs.
ReapedAlsoBanned(tracker, banned, t) ==
  {ip \in DOMAIN tracker : t - tracker[ip].lastRequest > STALE_THRESHOLD}

\* Mutant: the reaper deleting every entry not used at this very time.
ReapedEarly(tracker, banned, t) ==
  {ip \in DOMAIN tracker : /\ t - tracker[ip].lastRequest > 0
                           /\ ~SetHas(banned, ip)}

\* The entries a reaper pass deletes (server.js:126-130).
Reaped(tracker, banned, t) ==
  {ip \in DOMAIN tracker : /\ t - tracker[ip].lastRequest > STALE_THRESHOLD
                           /\ ~SetHas(banned, ip)}

Reap(tracker, banned, t) == MapDelete(tracker, Reaped(tracker, banned, t))

\* ------------------------------------------------------------ inputs

IpA == Str(<<"a">>)
IpB == Str(<<"b">>)

\* The requests the clients send: header and peer-address combinations that
\* resolve to "a" (by the first header, and by the forwarded list) and to
\* undefined (no header and a socket without remoteAddress).
Requests ==
  { [cf |-> IpA, realip |-> IpB, forwarded |-> Str(<<"b", ",", "a">>), remote |-> IpB],
    [cf |-> Str(<<>>), realip |-> Undefined,
     forwarded |-> Str(<<" ", "a", " ", ",", "b">>), remote |-> IpB],
    [cf |-> Undefined, realip |-> Undefined, forwarded |-> Undefined, remote |-> Undefined] }

\* Every shape of the inputs of getRealIP: each header absent, empty or set,
\* the forwarded list with one or two entries, with blanks around the first,
\* with an empty first entry or blank altogether, the socket with or without
\* a remoteAddress.
NoRequest ==
  [cf |-> Undefined, realip |-> Undefined, forwarded |-> Undefined, remote |-> Undefined]

ForwardedValues ==
  { Undefined, Str(<<>>), Str(<<"c">>), Str(<<"c", ",", " ", "d">>),
    Str(<<" ", "c", " ", ",", "d">>), Str(<<",", "c">>), Str(<<" ">>) }

AllRequests ==
  [cf : {Undefined, Str(<<>>), IpA},
   realip : {Undefined, Str(<<>>), IpB},
   forwarded : ForwardedValues,
   remote : {Undefined, Str(<<"p">>)}]

\* The :ip parameter of the unban route is always a string.
UnbanTargets == {IpA, IpB}

\* The ban-list file the first start finds: absent, or written by an earlier
\* run.
InitFiles ==
  { NoFile,
    ObjectFile(IpsArray(<<IpB>>), 1) }

\* The same, with the contents an editor or another program may have left.
AnyFiles ==
  InitFiles \cup
  { TextFile("invalid"),
    ObjectFile(IpsArray(<<>>), 0),
    ObjectFile(IpsArray(<<IpA, IpA>>), 2),
    ObjectFile(IpsArray(<<Num1, Null>>), 2),
    ObjectFile(IpsString(<<"a", "b">>), 2),
    ObjectFile(IpsOther("number"), 0),
    ObjectFile(IpsOther("object"), 0),
    ObjectFile(IpsOther("falsy"), 0),
    ObjectFile(NoIps, 0),
    TextFile("null"),
    TextFile("scalar") }

\* ------------------------------------------------------------ the state machine

\* last describes the step that led to the current state: the operation; for
\* a request the resolved identity, the connection's outcome, whether the
\* socket was destroyed and next() called, the branch of the tracker update
\* and the identity the unban handler removed; for a reaper pass the
\* identities it removed; the calls of writeFileSync (writes) and whether one
\* of them threw (failed); for a direct call of banIP the number of
\* consecutive calls for this identity so far (calls), their writes
\* (runWrites) and whether the identity was not banned before the first
\* (fresh); for a resolution of an identity its input (req); for a request also the stages of the connection (path), the
\* calls of banIP (banCalls) and whether a response was written (responded).
Quiet(op) ==
  [op |-> op, ip |-> Undefined, outcome |-> "none", destroyed |-> FALSE,
   next |-> FALSE, branch |-> "none", unbanned |-> {}, removed |-> {},
   writes |-> 0, failed |-> FALSE, calls |-> 0, runWrites |-> 0, fresh |-> FALSE,
   path |-> <<>>, banCalls |-> 0, responded |-> FALSE, req |-> NoRequest]

Wrote(op, st) == [Quiet(op) EXCEPT !.writes = st.writes, !.failed = st.failed]

NoWrites(f) == [file |-> f, writes |-> 0, failed |-> FALSE]

\* The event loop: the connections that are open, each with its position in
\* the middleware (queued: its callback has not started; checked: past the
\* ban check at server.js:81; tracked: past the tracker update at
\* server.js:103), the identity, route and :ip parameter of its request, the
\* branch of the tracker update it took, the value of now it read and the
\* count it saw; the connection whose callback is on the stack (running, 0 for
\* none); and, as a record of where that callback started, the memory it
\* found (start).
ConnIds == {1, 2}

IdleConn ==
  [stage |-> "idle", ip |-> Undefined, route |-> "page", target |-> Undefined,
   branch |-> "none", t |-> 0, count |-> 0]

NoSnapshot == [tracker |-> EmptyMap, banned |-> <<>>, st |-> NoWrites(NoFile)]

IdleLoop == [running |-> 0, conns |-> [c \in ConnIds |-> IdleConn], start |-> NoSnapshot]

\* Mutant: callbacks that may start while another one is on the stack.
BusyNever == FALSE

\* A callback is on the stack. The middleware (server.js:72-121) and the
\* reaper's callback (server.js:124-133) call nothing asynchronous (the file
\* calls are the Sync ones), so each runs to its return before the event loop
\* starts another callback.
Busy == loop.running # 0

\* log[ip]: the times of ip's requests of this process that passed the ban
\* check, as far back as one TIME_WINDOW.
LogAppend(lg, ip, t) ==
  MapSet(lg, ip, (IF MapHas(lg, ip) THEN lg[ip] ELSE <<>>) \o <<t>>)

RECURSIVE Since(_, _)
Since(times, t) ==
  IF times = <<>> THEN <<>>
  ELSE IF Head(times) >= t THEN times ELSE Since(Tail(times), t)

LogPrune(lg, t) ==
  LET kept == {ip \in DOMAIN lg : Since(lg[ip], t - TIME_WINDOW) # <<>>}
  IN  [ip \in kept |-> Since(lg[ip], t - TIME_WINDOW)]

\* shadow, when on, is the memory of the same run of the server without its
\* reaper: the tracker and ban set that the same requests leave when no
\* entry is ever deleted, with the outcome and tracker branch of the last
\* request there.
NoShadow ==
  [on |-> FALSE, tracker |-> EmptyMap, banned |-> <<>>, outcome |-> "none",
   branch |-> "none"]

\* The module's top level before loadBannedIPs() runs (server.js:13-14), with
\* the ban-list file one of files, beside the run without reaper or not.
InitBeside(files, shadowing) ==
  /\ pc = "stopped"
  /\ now = 0
  /\ requestTracker = EmptyMap
  /\ bannedIPs = <<>>
  /\ file \in files
  /\ last = Quiet("init")
  /\ log = EmptyMap
  /\ loop = IdleLoop
  /\ shadow = [NoShadow EXCEPT !.on = shadowing]

InitWith(files) == InitBeside(files, FALSE)

Init == InitWith(InitFiles)

\* node server.js: loadBannedIPs() and app.listen (server.js:189-200). The
\* read can fail only when there is a file, the write happens only when not.
\* reads and outcomes are what readFileSync and writeFileSync may do.
Startup(reads, outcomes) ==
  /\ pc = "stopped"
  /\ \E readOk \in (IF file.exists THEN reads ELSE {TRUE}),
        w \in (IF file.exists THEN {"ok"} ELSE outcomes) :
       LET r == loadBannedIPs(bannedIPs, NoWrites(file), readOk, w, now) IN
         /\ bannedIPs' = r.banned
         /\ file' = r.st.file
         /\ last' = Wrote("startup", r.st)
         /\ shadow' = IF shadow.on THEN [NoShadow EXCEPT !.on = TRUE, !.banned = r.banned]
                       ELSE shadow
  /\ pc' = "running"
  /\ UNCHANGED <<now, requestTracker, log, loop>>

\* One HTTP request: the middleware and, when it calls next(), the route's
\* handler (only the unban route changes state): the new m, what the
\* middleware did, whether the unban handler removed its target, and whether
\* a response was written: the middleware writes none, every handler behind
\* it (server.js:136-180) writes one.
Handle(m, ip, route, target, w, t) ==
  LET r == Middleware(m, ip, w, t) IN
  IF r.next /\ route = "unban"
  THEN LET h == UnbanHandler(r.m, target, w, t) IN
       [mw |-> r, m |-> h.m, success |-> h.success, responded |-> TRUE]
  ELSE [mw |-> r, m |-> r.m, success |-> FALSE, responded |-> r.next]

\* The same request in the run without reaper.
Unreaped(sh, ip, route, target, t) ==
  LET h == Handle([tracker |-> sh.tracker, banned |-> sh.banned, st |-> NoWrites(NoFile)],
                  ip, route, target, "ok", t)
  IN  [on |-> TRUE, tracker |-> h.m.tracker, banned |-> h.m.banned,
       outcome |-> h.mw.outcome, branch |-> h.mw.branch]

Memory == [tracker |-> requestTracker, banned |-> bannedIPs, st |-> NoWrites(file)]

Request(req, route, target, outcomes) ==
  /\ pc = "running"
  /\ \E ip \in {getRealIP(req)} :
       /\ (MapHas(requestTracker, ip) /\ ~SetHas(bannedIPs, ip))
            => requestTracker[ip].count < MaxCount
       /\ \E w \in (IF Handle(Memory, ip, route, target, "ok", now).m.st.writes > 0
                    THEN outcomes ELSE {"ok"}) :
            \E h \in {Handle(Memory, ip, route, target, w, now)} :
              /\ requestTracker' = h.m.tracker
              /\ bannedIPs' = h.m.banned
              /\ file' = h.m.st.file
              /\ last' = [Wrote("request", h.m.st) EXCEPT
                              !.ip = ip, !.outcome = h.mw.outcome,
                              !.destroyed = h.mw.destroyed, !.next = h.mw.next,
                              !.branch = h.mw.branch,
                              !.path = h.mw.path, !.banCalls = h.mw.banCalls,
                              !.responded = h.responded,
                              !.unbanned = IF h.success THEN {target} ELSE {}]
              /\ log' = IF h.mw.outcome = "REJECTED_BANNED" THEN log
                        ELSE LogAppend(log, ip, now)
              /\ shadow' = IF shadow.on THEN Unreaped(shadow, ip, route, target, now)
                            ELSE shadow
  /\ UNCHANGED <<pc, now, loop>>

\* Mutant: the reaper saving the ban list after its pass.
ReaperSaves ==
  /\ pc = "running"
  /\ ~Busy
  /\ requestTracker' = Reap(requestTracker, bannedIPs, now)
  /\ file' = saveBannedIPs(bannedIPs, NoWrites(file), "ok", now).file
  /\ last' = [Wrote("reaper", saveBannedIPs(bannedIPs, NoWrites(file), "ok", now)) EXCEPT
                  !.removed = Reaped(requestTracker, bannedIPs, now)]
  /\ UNCHANGED <<pc, now, bannedIPs, log, loop, shadow>>

\* The setInterval callback (server.js:124-133).
Reaper ==
  /\ pc = "running"
  /\ ~Busy
  /\ requestTracker' = Reap(requestTracker, bannedIPs, now)
  /\ last' = [Quiet("reaper") EXCEPT
                  !.removed = Reaped(requestTracker, bannedIPs, now)]
  /\ UNCHANGED <<pc, now, bannedIPs, file, log, loop, shadow>>

\* The SIGINT and SIGTERM handlers (server.js:203-213); the process's memory
\* is gone once it has exited.
Shutdown(outcomes) ==
  /\ pc = "running"
  /\ \E w \in outcomes :
       LET st == saveBannedIPs(bannedIPs, NoWrites(file), w, now) IN
         /\ file' = st.file
         /\ last' = Wrote("shutdown", st)
  /\ pc' = "stopped"
  /\ requestTracker' = EmptyMap
  /\ bannedIPs' = <<>>
  /\ log' = EmptyMap
  /\ shadow' = [NoShadow EXCEPT !.on = shadow.on]
  /\ UNCHANGED <<now, loop>>

\* Date.now() advances; a callback reads it once (server.js:84, 125) and is
\* over before it advances again.
Tick ==
  /\ now < MaxTime
  /\ ~Busy
  /\ now' = now + 1
  /\ log' = LogPrune(log, now + 1)
  /\ last' = Quiet("tick")
  /\ UNCHANGED <<pc, requestTracker, bannedIPs, file, loop, shadow>>

\* const ip = getRealIP(req) (server.js:73, 137, 144) alone.
Resolve(req) ==
  /\ pc = "running"
  /\ last' = [Quiet("resolve") EXCEPT !.ip = getRealIP(req), !.req = req]
  /\ UNCHANGED <<pc, now, requestTracker, bannedIPs, file, log, loop, shadow>>

\* A direct call of banIP(ip), as a caller of the ban store makes it.
BanCall(ip, outcomes) ==
  /\ pc = "running"
  /\ (last.op = "ban" /\ last.ip = ip) => last.calls < MaxCalls
  /\ \E w \in (IF SetHas(bannedIPs, ip) THEN {"ok"} ELSE outcomes) :
       LET b == banIP([banned |-> bannedIPs, st |-> NoWrites(file)], ip, w, now)
           again == last.op = "ban" /\ last.ip = ip
       IN  /\ bannedIPs' = b.banned
           /\ file' = b.st.file
           /\ last' = [Wrote("ban", b.st) EXCEPT
                         !.ip = ip,
                         !.calls = IF again THEN last.calls + 1 ELSE 1,
                         !.runWrites = (IF again THEN last.runWrites ELSE 0) + b.st.writes,
                         !.fresh = IF again THEN last.fresh ELSE ~SetHas(bannedIPs, ip)]
  /\ UNCHANGED <<pc, now, requestTracker, log, loop, shadow>>

\* A direct call of the unban handler's body, a callback of its own.
UnbanCall(target, outcomes) ==
  /\ pc = "running"
  /\ ~Busy
  /\ \E w \in (IF SetHas(bannedIPs, target) THEN outcomes ELSE {"ok"}) :
       LET h == UnbanHandler(Memory, target, w, now) IN
         /\ bannedIPs' = h.m.banned
         /\ file' = h.m.st.file
         /\ requestTracker' = h.m.tracker
         /\ last' = [Wrote("unban", h.m.st) EXCEPT
                       !.ip = target,
                       !.unbanned = IF h.success THEN {target} ELSE {}]
  /\ UNCHANGED <<pc, now, log, loop, shadow>>

\* The server through one run, under traffic from two identities, the file
\* system working.
Next ==
  \/ Startup({TRUE}, {"ok"})
  \/ \E req \in Requests : Request(req, "page", Undefined, {"ok"})
  \/ \E req \in Requests, target \in UnbanTargets : Request(req, "unban", target, {"ok"})
  \/ Reaper
  \/ Tick

Spec == Init /\ [][Next]_vars

\* The same run beside the run without reaper.
SpecReaper == InitBeside({NoFile}, TRUE) /\ [][Next]_vars

\* The server through restarts, with a failing file system and any ban-list
\* file, under traffic from one identity.
OneClient == {req \in Requests : getRealIP(req) = IpA /\ Truthy(req.cf)}

NextFaults ==
  \/ Startup(BOOLEAN, WriteOutcomes)
  \/ \E req \in OneClient : Request(req, "page", Undefined, WriteOutcomes)
  \/ \E req \in OneClient, target \in UnbanTargets :
       Request(req, "unban", target, WriteOutcomes)
  \/ Reaper
  \/ Shutdown(WriteOutcomes)
  \/ Tick

SpecFaults == InitWith(AnyFiles) /\ [][NextFaults]_vars

\* The ban store driven through banIP, the unban handler, load and save, with
\* a failing file system, beside the page requests of one client.
Identities == {getRealIP(req) : req \in Requests} \cup UnbanTargets

NextStore ==
  \/ Startup(BOOLEAN, WriteOutcomes)
  \/ \E ip \in Identities : BanCall(ip, WriteOutcomes)
  \/ \E target \in UnbanTargets : UnbanCall(target, WriteOutcomes)
  \/ \E req \in OneClient : Request(req, "page", Undefined, WriteOutcomes)
  \/ Shutdown(WriteOutcomes)

SpecStore == Init /\ [][NextStore]_vars

\* A connection is accepted and its request parsed: the middleware's callback
\* for it is queued. A new connection takes the lowest free number.
Arrive(c, req, route, target) ==
  /\ pc = "running"
  /\ loop.conns[c].stage = "idle"
  /\ \A d \in ConnIds : d < c => loop.conns[d].stage # "idle"
  /\ loop' = [loop EXCEPT !.conns[c] =
                 [IdleConn EXCEPT !.stage = "queued", !.ip = getRealIP(req),
                                  !.route = route, !.target = target]]
  /\ last' = Quiet("arrive")
  /\ UNCHANGED <<pc, now, requestTracker, bannedIPs, file, log, shadow>>

\* The middleware's callback starts: server.js:73-81.
BanCheck(c) ==
  /\ pc = "running"
  /\ ~Busy
  /\ loop.conns[c].stage = "queued"
  /\ LET ip == loop.conns[c].ip IN
       /\ (MapHas(requestTracker, ip) /\ ~SetHas(bannedIPs, ip))
            => requestTracker[ip].count < MaxCount
       /\ IF SetHas(bannedIPs, ip)
          THEN /\ loop' = [loop EXCEPT !.conns[c] = IdleConn]
               /\ last' = [Quiet("request") EXCEPT
                             !.ip = ip, !.outcome = "REJECTED_BANNED",
                             !.destroyed = TRUE,
                             !.path = <<"ENTRY", "REJECTED_BANNED">>]
          ELSE /\ loop' = [loop EXCEPT !.running = c, !.conns[c].stage = "checked",
                                       !.start = Memory]
               /\ last' = [Quiet("check") EXCEPT !.ip = ip]
  /\ UNCHANGED <<pc, now, requestTracker, bannedIPs, file, log, shadow>>

\* The tracker update: server.js:84-103.
Track(c) ==
  /\ pc = "running"
  /\ loop.conns[c].stage = "checked"
  /\ LET ip == loop.conns[c].ip IN
       /\ requestTracker' = TrackRequest(requestTracker, ip, now)
       /\ loop' = [loop EXCEPT !.conns[c].stage = "tracked",
                               !.conns[c].branch = Branch(requestTracker, ip, now),
                               !.conns[c].t = now,
                               !.conns[c].count = TrackRequest(requestTracker, ip, now)[ip].count]
       /\ log' = LogAppend(log, ip, now)
       /\ last' = [Quiet("track") EXCEPT !.ip = ip]
  /\ UNCHANGED <<pc, now, bannedIPs, file, shadow>>

\* The limit check and what follows it: server.js:106-120, and behind next()
\* the route's handler. tracker is a reference to the entry: its count is the
\* entry's while the entry is in the map.
Decide(c) ==
  /\ pc = "running"
  /\ loop.conns[c].stage = "tracked"
  /\ LET k == loop.conns[c]
         count == IF MapHas(requestTracker, k.ip) THEN requestTracker[k.ip].count ELSE k.count
         exceeded == k.branch # "new" /\ count > REQUEST_LIMIT
         b == banIP([banned |-> bannedIPs, st |-> NoWrites(file)], k.ip, "ok", now)
         h == IF k.route = "unban" THEN UnbanHandler(Memory, k.target, "ok", now)
              ELSE [m |-> Memory, success |-> FALSE]
     IN  /\ bannedIPs' = IF exceeded THEN b.banned ELSE h.m.banned
         /\ file' = IF exceeded THEN b.st.file ELSE h.m.st.file
         /\ last' = [Wrote("request", IF exceeded THEN b.st ELSE h.m.st) EXCEPT
                       !.ip = k.ip,
                       !.outcome = IF exceeded THEN "BANNED_NOW_REJECTED" ELSE "ADMITTED",
                       !.destroyed = exceeded, !.next = ~exceeded,
                       !.responded = ~exceeded, !.branch = k.branch,
                       !.path = <<"ENTRY", "TRACKED",
                                  IF exceeded THEN "BANNED_NOW_REJECTED" ELSE "ADMITTED">>,
                       !.banCalls = IF exceeded THEN 1 ELSE 0,
                       !.unbanned = IF ~exceeded /\ h.success THEN {k.target} ELSE {}]
  /\ loop' = [loop EXCEPT !.running = 0, !.conns[c] = IdleConn, !.start = NoSnapshot]
  /\ UNCHANGED <<pc, now, requestTracker, log, shadow>>

\* The server with several connections open at once, statement by statement;
\* the connections ask for pages, the unban handler runs as a callback of its
\* own.
ConnRoutes == {[route |-> "page", target |-> Undefined]}

NextConcurrent ==
  \/ Startup({TRUE}, {"ok"})
  \/ \E c \in ConnIds, req \in Requests, r \in ConnRoutes : Arrive(c, req, r.route, r.target)
  \/ \E c \in ConnIds : BanCheck(c)
  \/ \E c \in ConnIds : Track(c)
  \/ \E c \in ConnIds : Decide(c)
  \/ UnbanCall(IpA, {"ok"})
  \/ Reaper
  \/ Tick

SpecConcurrent == InitWith({NoFile}) /\ [][NextConcurrent]_vars

\* The identity resolver alone, on every shape of its inputs.
NextIdentity ==
  \/ Startup({TRUE}, {"ok"})
  \/ \E req \in AllRequests : Resolve(req)

SpecIdentity == Init /\ [][NextIdentity]_vars

\* ------------------------------------------------------------ claims

\* What is left of a tracker entry: the entry, or "absent".
Entry(tracker, ip) == IF MapHas(tracker, ip) THEN <<tracker[ip]>> ELSE <<>>

\* C1: ban permanence. While the process runs, an identity in bannedIPs leaves
\* it only by the unban handler removing that very identity (not by a request
\* of anybody, a reaper pass or a failed save), and every request of an
\* identity in bannedIPs is rejected: its socket is destroyed and next() is
\* not called.
C1_BanPermanence ==
  [][ /\ \A x \in Members(bannedIPs) :
           (pc' = "running" /\ ~SetHas(bannedIPs', x))
             => (last'.op = "request" /\ last'.unbanned = {x})
      /\ (last'.op = "request" /\ SetHas(bannedIPs, last'.ip))
           => /\ last'.outcome = "REJECTED_BANNED"
              /\ last'.destroyed /\ ~last'.next
              /\ bannedIPs' = bannedIPs ]_vars

\* C1's case: a request of an identity banned earlier in this process, whose
\* ban never reached the file, has just been rejected.
C1_Witness ==
  /\ last.op = "request" /\ last.outcome = "REJECTED_BANNED"
  /\ SetHas(bannedIPs, last.ip) /\ MapHas(requestTracker, last.ip)
  /\ ~(file.kind = "object" /\ SeqHas(file.ips.a, last.ip))

\* A request that passed the ban check has just been handled.
Tracked == pc = "running" /\ last.op = "request" /\ last.outcome # "REJECTED_BANNED"

\* The number of last.ip's requests since its window started, this one included.
InWindow == Len(Since(log[last.ip], requestTracker[last.ip].firstRequest))

\* C2: threshold boundary. The k-th request of a non-banned identity within
\* one window is admitted (next() called, socket kept) for every
\* k <= REQUEST_LIMIT; the first request that is not, the one with
\* k = REQUEST_LIMIT + 1, calls banIP (one write, the identity banned) and is
\* rejected without next().
C2_ThresholdBoundary ==
  Tracked =>
    /\ InWindow <= REQUEST_LIMIT
         => /\ last.outcome = "ADMITTED" /\ last.next /\ ~last.destroyed
            /\ ~SetHas(bannedIPs, last.ip)
    /\ InWindow > REQUEST_LIMIT
         => /\ last.outcome = "BANNED_NOW_REJECTED" /\ ~last.next /\ last.destroyed
            /\ SetHas(bannedIPs, last.ip) /\ last.writes = 1

\* C2's case: the request number REQUEST_LIMIT + 1 of a window has just banned.
C2_Witness ==
  /\ Tracked /\ InWindow = REQUEST_LIMIT + 1
  /\ last.outcome = "BANNED_NOW_REJECTED"
  /\ requestTracker[last.ip].count = REQUEST_LIMIT + 1

\* C3: ban precedence. A request, whoever sends it, leaves the tracker entry
\* of every identity that is banned before and after it as it was (absent, or
\* the same count, firstRequest and lastRequest).
C3_BanPrecedence ==
  [][ last'.op = "request" =>
        \A x \in Members(bannedIPs) :
          SetHas(bannedIPs', x) => Entry(requestTracker', x) = Entry(requestTracker, x) ]_vars

\* C3's case: a banned identity with a tracker entry has sent a request later
\* than the entry's lastRequest and has been rejected.
C3_Witness ==
  /\ last.op = "request" /\ last.outcome = "REJECTED_BANNED"
  /\ MapHas(requestTracker, last.ip)
  /\ requestTracker[last.ip].lastRequest < now

\* C4 as claimed (a sliding window): a request that is more than the
\* REQUEST_LIMIT-th of its identity within the last TIME_WINDOW bans it.
C4_SlidingWindow ==
  Tracked => (Len(log[last.ip]) > REQUEST_LIMIT => SetHas(bannedIPs, last.ip))

\* C4, amended (a tumbling window): a request that is more than the
\* REQUEST_LIMIT-th of its identity since firstRequest, the start of the
\* identity's current window, bans it.
C4_TumblingWindow ==
  \A ip \in DOMAIN requestTracker :
    (Tracked /\ last.ip = ip
       /\ Len(Since(log[ip], requestTracker[ip].firstRequest)) > REQUEST_LIMIT)
      => SetHas(bannedIPs, ip)

\* C4's case: a request has just banned its identity for exceeding the limit
\* within a window that started before it.
C4_Witness ==
  /\ Tracked /\ SetHas(bannedIPs, last.ip)
  /\ Len(Since(log[last.ip], requestTracker[last.ip].firstRequest)) > REQUEST_LIMIT
  /\ requestTracker[last.ip].firstRequest < now

\* C5: window reset. A request that passes the ban check leaves its identity's
\* entry as: count 1 and firstRequest = now when there was none; count 1 and
\* firstRequest = now when now - firstRequest > TIME_WINDOW; count + 1 and the
\* same firstRequest otherwise; lastRequest = now in every case.
C5_WindowReset ==
  [][ (last'.op = "request" /\ last'.outcome # "REJECTED_BANNED") =>
        LET ip == last'.ip
            new == requestTracker'[ip]
        IN  /\ MapHas(requestTracker', ip)
            /\ new.lastRequest = now
            /\ IF ~MapHas(requestTracker, ip)
               THEN new.count = 1 /\ new.firstRequest = now /\ last'.branch = "new"
               ELSE LET old == requestTracker[ip] IN
                    IF now - old.firstRequest > TIME_WINDOW
                    THEN new.count = 1 /\ new.firstRequest = now /\ last'.branch = "reset"
                    ELSE /\ new.count = old.count + 1
                         /\ new.firstRequest = old.firstRequest
                         /\ last'.branch = "increment" ]_vars

\* C5's case: a request arriving TIME_WINDOW + 1 after its window started has
\* reset the entry to count 1.
C5_Witness ==
  /\ Tracked /\ last.branch = "reset"
  /\ requestTracker[last.ip] = [count |-> 1, firstRequest |-> now, lastRequest |-> now]
  /\ \E other \in DOMAIN requestTracker :
       /\ requestTracker[other].firstRequest = now - TIME_WINDOW
       /\ requestTracker[other].lastRequest = now
       /\ requestTracker[other].count > 1

\* C6: reaper safety. A reaper pass removes exactly the entries whose
\* lastRequest is more than STALE_THRESHOLD old and whose identity is not
\* banned, keeps every other entry as it is, and leaves bannedIPs alone.
C6_ReaperSafety ==
  [][ last'.op = "reaper" =>
        /\ \A ip \in DOMAIN requestTracker :
             IF now - requestTracker[ip].lastRequest > STALE_THRESHOLD
                /\ ~SetHas(bannedIPs, ip)
             THEN ~MapHas(requestTracker', ip) /\ ip \in last'.removed
             ELSE Entry(requestTracker', ip) = Entry(requestTracker, ip)
        /\ DOMAIN requestTracker' \subseteq DOMAIN requestTracker
        /\ bannedIPs' = bannedIPs ]_vars

\* C6's case: a reaper pass has removed a stale entry and kept the stale entry
\* of a banned identity.
C6_Witness ==
  /\ last.op = "reaper" /\ last.removed # {}
  /\ \E ip \in DOMAIN requestTracker :
       now - requestTracker[ip].lastRequest > STALE_THRESHOLD /\ SetHas(bannedIPs, ip)

\* The identities the file lists, as load reads them.
Listed(f) == Members(loadBannedIPs(<<>>, NoWrites(f), TRUE, "ok", 0).banned)

\* C7 as claimed: after a successful save the file's ips list holds exactly
\* the identities of bannedIPs, totalBanned is their number, and load reads
\* the same set back from it.
C7_RoundTrip ==
  (pc = "running" /\ last.writes > 0 /\ ~last.failed)
    => /\ file.exists /\ file.kind = "object" /\ file.ips.t = "array"
       /\ Members(file.ips.a) = Members(bannedIPs)
       /\ file.total = Len(bannedIPs)
       /\ Listed(file) = Members(bannedIPs)

\* C8: ban idempotence. banIP(x) with x banned changes neither bannedIPs nor
\* the file and calls no write; with x not banned it adds x and calls one
\* write; x is in bannedIPs once afterwards; and two calls in a row starting
\* with x not banned make one write together.
C8_BanIdempotence ==
  [][ last'.op = "ban" =>
        LET x == last'.ip IN
          /\ IF SetHas(bannedIPs, x)
             THEN bannedIPs' = bannedIPs /\ file' = file /\ last'.writes = 0
             ELSE bannedIPs' = Append(bannedIPs, x) /\ last'.writes = 1
          /\ CountIn(bannedIPs', x) = 1
          /\ (last'.calls = 2 /\ last'.fresh) => last'.runWrites = 1 ]_vars

\* C8's case: banIP has been called twice in a row for an identity that was
\* not banned before.
C8_Witness ==
  /\ last.op = "ban" /\ last.calls = 2 /\ last.fresh /\ last.runWrites = 1
  /\ last.writes = 0 /\ CountIn(bannedIPs, last.ip) = 1

\* Whether the file lists ip.
Durable(f, ip) == f.exists /\ f.kind = "object" /\ f.ips.t = "array" /\ SeqHas(f.ips.a, ip)

\* C9: save-failure semantics. When the write of a ban fails, the process
\* keeps running, the identity is in bannedIPs, the request that triggered
\* the ban has its socket destroyed and no next(); and a later request of an
\* identity whose ban is in memory but not in the file is rejected.
C9_SaveFailure ==
  [][ /\ (last'.op = "request" /\ last'.outcome = "BANNED_NOW_REJECTED" /\ last'.failed)
           => /\ pc' = "running"
              /\ SetHas(bannedIPs', last'.ip)
              /\ last'.destroyed /\ ~last'.next
      /\ (last'.op = "request" /\ SetHas(bannedIPs, last'.ip) /\ ~Durable(file, last'.ip))
           => /\ last'.outcome = "REJECTED_BANNED"
              /\ last'.destroyed /\ ~last'.next
              /\ SetHas(bannedIPs', last'.ip) ]_vars

\* C9's case: the write of a ban has just failed.
C9_Witness ==
  /\ last.op = "request" /\ last.outcome = "BANNED_NOW_REJECTED" /\ last.failed
  /\ SetHas(bannedIPs, last.ip) /\ ~Durable(file, last.ip)

\* A file that is present but malformed: not JSON, JSON that is no object, or
\* an object whose ips is not a list of strings.
Malformed(f) ==
  /\ f.exists
  /\ \/ f.kind \in {"invalid", "null", "scalar"}
     \/ f.kind = "object" /\ f.ips.t # "array"
     \/ f.kind = "object" /\ f.ips.t = "array"
          /\ \E i \in 1..Len(f.ips.a) : f.ips.a[i].t # "string"

\* C10 as claimed: a start that finds a malformed file leaves the process
\* running with bannedIPs empty.
C10_FailSafeLoad ==
  (last.op = "startup" /\ Malformed(file)) => (pc = "running" /\ bannedIPs = <<>>)

\* The file saveBannedIPs writes for an empty bannedIPs.
EmptyListFile == ObjectFile(IpsArray(<<>>), 0)

\* C11 as claimed: a start that finds no file leaves bannedIPs empty and the
\* file in place with an empty ips list, so that the file exists whenever the
\* process runs.
C11_FileAlwaysExists ==
  [][ /\ (last'.op = "startup" /\ ~file.exists)
           => (bannedIPs' = <<>> /\ file' = EmptyListFile)
      /\ pc' = "running" => file'.exists ]_vars

\* C11, amended: a start that finds no file leaves bannedIPs empty, calls
\* one write and keeps running; when the write succeeds the file is in place
\* with an empty ips list, when it throws the file is still absent or is left
\* truncated; and a file that exists keeps existing while the process runs.
C11_AbsentFileLoad ==
  [][ /\ (last'.op = "startup" /\ ~file.exists)
           => /\ bannedIPs' = <<>> /\ pc' = "running" /\ last'.writes = 1
              /\ IF last'.failed
                 THEN file' \in {NoFile, TextFile("invalid")}
                 ELSE file' = EmptyListFile
      /\ (pc' = "running" /\ file.exists) => file'.exists ]_vars

\* C11's case: a start has found no file and written it.
C11_Witness ==
  /\ last.op = "startup" /\ last.writes = 1 /\ ~last.failed
  /\ pc = "running" /\ bannedIPs = <<>> /\ file = EmptyListFile

\* C12: unban contract. The unban handler for a banned x removes x, calls
\* one write and reports success; for an x that is not banned it reports
\* failure, leaves bannedIPs and the file alone and calls no write; and either
\* way every other identity stays banned or not as it was, in the same order,
\* and requestTracker is unchanged.
C12_UnbanContract ==
  [][ last'.op = "unban" =>
        LET x == last'.ip IN
          /\ IF SetHas(bannedIPs, x)
             THEN ~SetHas(bannedIPs', x) /\ last'.writes = 1 /\ last'.unbanned = {x}
             ELSE bannedIPs' = bannedIPs /\ file' = file
                  /\ last'.writes = 0 /\ last'.unbanned = {}
          /\ bannedIPs' = SeqWithout(bannedIPs, x)
          /\ requestTracker' = requestTracker ]_vars

\* C12's case: the unban handler has removed a banned identity that has a
\* tracker entry, others staying banned.
C12_Witness ==
  /\ last.op = "unban" /\ last.unbanned = {IpA} /\ last.writes = 1
  /\ MapHas(requestTracker, IpA) /\ ~SetHas(bannedIPs, IpA) /\ bannedIPs # <<>>

\* C13: admission state machine. Every request ends in one of three
\* outcomes. ADMITTED: next() called, socket not destroyed, through TRACKED.
\* REJECTED_BANNED: socket destroyed, no next(), no response, straight from
\* ENTRY with the tracker untouched and banIP not called.
\* BANNED_NOW_REJECTED: socket destroyed, no next(), no response, through
\* TRACKED, after one call of banIP that left the identity in bannedIPs.
C13_AdmissionStateMachine ==
  [][ last'.op = "request" =>
        /\ last'.outcome \in {"ADMITTED", "REJECTED_BANNED", "BANNED_NOW_REJECTED"}
        /\ last'.outcome = "ADMITTED" =>
             /\ last'.next /\ ~last'.destroyed /\ last'.responded
             /\ last'.path = <<"ENTRY", "TRACKED", "ADMITTED">>
             /\ last'.banCalls = 0
             /\ ~SetHas(bannedIPs, last'.ip)
        /\ last'.outcome = "REJECTED_BANNED" =>
             /\ last'.destroyed /\ ~last'.next /\ ~last'.responded
             /\ last'.path = <<"ENTRY", "REJECTED_BANNED">>
             /\ last'.banCalls = 0 /\ last'.writes = 0
             /\ SetHas(bannedIPs, last'.ip)
             /\ requestTracker' = requestTracker
        /\ last'.outcome = "BANNED_NOW_REJECTED" =>
             /\ last'.destroyed /\ ~last'.next /\ ~last'.responded
             /\ last'.path = <<"ENTRY", "TRACKED", "BANNED_NOW_REJECTED">>
             /\ last'.banCalls = 1 /\ last'.writes = 1
             /\ ~SetHas(bannedIPs, last'.ip) /\ SetHas(bannedIPs', last'.ip)
             /\ requestTracker'[last'.ip].count > REQUEST_LIMIT ]_vars

\* C13's case: a request has just been banned and rejected, its identity
\* having been admitted before.
C13_Witness ==
  /\ last.op = "request" /\ last.outcome = "BANNED_NOW_REJECTED"
  /\ last.path = <<"ENTRY", "TRACKED", "BANNED_NOW_REJECTED">>
  /\ last.destroyed /\ ~last.next /\ SetHas(bannedIPs, last.ip)

\* A header that is present: sent with a value that is not empty.
Present(h) == h.t = "string" /\ h.s # <<>>

\* The left-most entry of a comma-separated list, and an entry without the
\* blanks around it.
LeftMost(chars) ==
  LET commas == {i \in 1..Len(chars) : chars[i] = ","}
  IN  IF commas = {} THEN chars
      ELSE SubSeq(chars, 1, (CHOOSE i \in commas : \A j \in commas : i <= j) - 1)

Trimmed(chars) ==
  LET solid == {i \in 1..Len(chars) : chars[i] # " "}
  IN  IF solid = {} THEN <<>>
      ELSE SubSeq(chars, CHOOSE i \in solid : \A j \in solid : i <= j,
                         CHOOSE i \in solid : \A j \in solid : i >= j)

\* C14: identity precedence. The resolved identity is the first present of
\* cf-connecting-ip, x-real-ip, the trimmed left-most entry of
\* x-forwarded-for, and the socket's address; a forwarded list "c, d" beside
\* x-real-ip "b" resolves to "b", and alone to "c".
C14_IdentityPrecedence ==
  last.op = "resolve" =>
    LET r == last.req IN
      /\ last.ip = IF Present(r.cf) THEN r.cf
                   ELSE IF Present(r.realip) THEN r.realip
                   ELSE IF Present(r.forwarded) THEN Str(Trimmed(LeftMost(r.forwarded.s)))
                   ELSE r.remote
      /\ (~Present(r.cf) /\ r.forwarded = Str(<<"c", ",", " ", "d">>))
           => last.ip = IF r.realip = IpB THEN IpB ELSE Str(<<"c">>)

\* C14's case: a request with only a forwarded list of two entries, blanks
\* around the first, has been resolved to the first.
C14_Witness ==
  /\ last.op = "resolve" /\ last.ip = Str(<<"c">>)
  /\ last.req.cf = Undefined /\ last.req.realip = Undefined
  /\ last.req.forwarded = Str(<<" ", "c", " ", ",", "d">>)
  /\ last.req.remote = Str(<<"p">>)

\* C15 as claimed: whatever the headers and the socket, the resolver returns
\* a string.
C15_IdentityIsString ==
  last.op = "resolve" => last.ip.t = "string"

\* C16: persistence is off the per-request path. A request that is admitted
\* (and unbans nothing) or rejected as banned, a reaper pass and the passing
\* of time call no write and leave the file as it is; a step writes, once,
\* only when it is a request that bans its identity, a request whose unban
\* handler removes one, a start that finds no file, or a shutdown.
C16_WritesOnlyOnEvents ==
  [][ /\ ( \/ /\ last'.op = "request"
              /\ last'.outcome \in {"ADMITTED", "REJECTED_BANNED"}
              /\ last'.unbanned = {}
           \/ last'.op \in {"reaper", "tick"} )
           => (last'.writes = 0 /\ file' = file)
      /\ (last'.writes > 0 \/ file' # file)
           => /\ last'.writes = 1
              /\ \/ /\ last'.op = "request" /\ last'.outcome = "BANNED_NOW_REJECTED"
                    /\ ~SetHas(bannedIPs, last'.ip) /\ SetHas(bannedIPs', last'.ip)
                 \/ /\ last'.op = "request" /\ last'.outcome = "ADMITTED"
                    /\ last'.unbanned # {}
                    /\ \A x \in last'.unbanned : SetHas(bannedIPs, x) /\ ~SetHas(bannedIPs', x)
                 \/ last'.op = "startup" /\ ~file.exists
                 \/ last'.op = "shutdown" ]_vars

\* C16's case: a request of an identity whose ban never reached the file has
\* been rejected without a write.
C16_Witness ==
  /\ last.op = "request" /\ last.outcome = "REJECTED_BANNED"
  /\ last.writes = 0 /\ ~Durable(file, last.ip) /\ SetHas(bannedIPs, last.ip)

\* The connections in the middle of a decision: past the ban check and not
\* yet returned.
Deciding == {c \in ConnIds : loop.conns[c].stage \in {"checked", "tracked"}}

\* C17: serialization. At most one connection is in the middle of a decision;
\* while one is, requestTracker, bannedIPs and the file change by its own
\* steps only (no other decision, reaper pass or unban); when it returns, the
\* outcome and the memory are what the whole middleware, applied in one step
\* to the memory it started from, gives; every tracker update counts (count is
\* the number of the identity's tracked requests since firstRequest); and an
\* admitted request is at most the REQUEST_LIMIT-th of its window.
C17_Serialization ==
  [][ /\ Cardinality(Deciding) <= 1
      /\ \A c \in Deciding :
           LET k == loop.conns[c] IN
             /\ <<requestTracker', bannedIPs', file'>> # <<requestTracker, bannedIPs, file>>
                  => /\ loop'.conns[c].stage # k.stage
                     /\ \A d \in ConnIds \ {c} : loop'.conns[d] = loop.conns[d]
                     /\ last'.op \in {"track", "request"} /\ last'.ip = k.ip
             /\ (k.stage = "tracked" /\ loop'.conns[c].stage = "idle")
                  => LET h == Handle(loop.start, k.ip, k.route, k.target, "ok", k.t) IN
                       /\ requestTracker' = h.m.tracker
                       /\ bannedIPs' = h.m.banned
                       /\ file' = h.m.st.file
                       /\ last'.outcome = h.mw.outcome
                       /\ last'.writes = h.m.st.writes
      /\ last'.op = "track"
           => requestTracker'[last'.ip].count
                = Len(Since(log'[last'.ip], requestTracker'[last'.ip].firstRequest))
      /\ (last'.op = "request" /\ last'.outcome = "ADMITTED")
           => /\ requestTracker'[last'.ip].count <= REQUEST_LIMIT
              /\ Len(Since(log'[last'.ip], requestTracker'[last'.ip].firstRequest))
                   <= REQUEST_LIMIT ]_vars

\* C17's case: a connection is past the tracker update with its identity's
\* count over the limit, and another connection of the same identity is
\* queued behind it.
C17_Witness ==
  \E c \in ConnIds, d \in ConnIds :
    /\ loop.conns[c].stage = "tracked" /\ loop.conns[d].stage = "queued"
    /\ loop.conns[c].ip = loop.conns[d].ip
    /\ requestTracker[loop.conns[c].ip].count = REQUEST_LIMIT + 1

\* C18 as claimed: the first request of an identity after the unban handler
\* has removed it is admitted, however soon it comes.
C18_FreshQuota ==
  [][ (last.op = "request" /\ last'.op = "request" /\ last.unbanned = {last'.ip})
        => last'.outcome = "ADMITTED" ]_vars

\* C19: reaper transparency. Beside the run without reaper, the run with
\* reaper passes has the same outcome for every request and the same
\* bannedIPs; every entry it has is the entry of the other run; the entries
\* it lacks belong to identities that are not banned and were last seen more
\* than the stale threshold, hence more than TIME_WINDOW, ago, so that their
\* next request leaves count 1 and firstRequest = lastRequest = now in both.
C19_ReaperTransparency ==
  (shadow.on /\ pc = "running") =>
    /\ shadow.banned = bannedIPs
    /\ last.op = "request" => shadow.outcome = last.outcome
    /\ \A ip \in DOMAIN requestTracker :
         MapHas(shadow.tracker, ip) /\ shadow.tracker[ip] = requestTracker[ip]
    /\ \A ip \in DOMAIN shadow.tracker \ DOMAIN requestTracker :
         /\ ~SetHas(bannedIPs, ip)
         /\ now - shadow.tracker[ip].lastRequest > STALE_THRESHOLD
         /\ now - shadow.tracker[ip].firstRequest > TIME_WINDOW
    /\ (last.op = "request" /\ last.branch = "new" /\ shadow.branch = "reset")
         => requestTracker[last.ip] = [count |-> 1, firstRequest |-> now, lastRequest |-> now]

\* C19's case: an identity whose entry the reaper had deleted has made its
\* next request: a new entry here, a window reset in the run without reaper.
C19_Witness ==
  /\ shadow.on /\ last.op = "request" /\ last.outcome = "ADMITTED"
  /\ last.branch = "new" /\ shadow.branch = "reset"
  /\ shadow.tracker[last.ip] = requestTracker[last.ip]

====
